---- MODULE Spec2Model ----
(***************************************************************************)
(* Entitlement lifecycle and reconciliation engine of vpn-api              *)
(* (src/src/main.rs, src/src/models.rs).                                   *)
(*                                                                         *)
(* The relational store is modelled by its committed contents; a handler   *)
(* is a sequence of steps, one per await on the store or on the remote     *)
(* provisioning service, so that other handlers and the clock interleave   *)
(* between the steps exactly where the code yields.                        *)
(*                                                                         *)
(* Time is counted in ticks of twelve hours.  The application clock        *)
(* (Utc::now) and the store's clock (NOW()) are the same clock.            *)
(***************************************************************************)
EXTENDS Integers, Sequences, FiniteSets, TLC

(***************************************************************************)
(* Bounds of the model.                                                    *)
(***************************************************************************)
NumAccounts == 3
\* the accounts the registration/extension runs and the sweep runs work on
NumExtended == 1
NumSwept == 1
NumProcs == 2
MaxTime == 1
MaxDays == 1
MaxEnd == 2
MaxHorizon == 1
NumCodes == 1
MaxUses == 2
NumRenewed == 1
NumAlone == 2
MaxRenewTime == 2
MaxFails == 3
MaxCreated == 2
MaxTasks == 2

Accounts == 1..NumAccounts
Procs == 1..NumProcs
\* Option<i64>::None / SQL NULL for an account reference
NoAccount == 0
\* the plan tags extend_subscription branches on, and one it does not know
Plans == {"base", "family", "trial"}
\* users.plan of a new row is the column default, which create_user does not
\* set: any of these
DefaultPlans == {"base", "free"}
DayCounts == 0..MaxDays
Horizons == 0..MaxHorizon
Codes == 1..NumCodes
\* the tariff of a validation request: none given, or a plan tag
Tariffs == {"", "base", "family"}

VARIABLES
    now,                \* the clock, in ticks of 12 hours
    registered,         \* telegram_ids that have a row in users
    subscription_end,   \* users.subscription_end
    is_active,          \* users.is_active: 0 inactive, 1 active, 2 grace
    plan,               \* users.plan
    referral_id,        \* users.referral_id (NoAccount when NULL)
    referrals,          \* users.referrals (a Postgres array: a sequence)
    remote,             \* the provisioning service's record per telegramId
    reported,           \* per account and sweep phase: invocations that
                        \* returned the account since its last extension
    promo_codes,        \* the promo_codes table, by code
    promo_usages,       \* the promo_usages table: rows per (code, telegram_id)
    auto_renew,         \* users.auto_renew
    payment_method_id,  \* users.payment_method_id (NoMethod when NULL)
    auto_renew_plan,    \* users.auto_renew_plan (NoTerm when NULL)
    auto_renew_duration,     \* users.auto_renew_duration (NoTerm when NULL)
    auto_renew_last_attempt, \* users.auto_renew_last_attempt (NoTime when NULL)
    auto_renew_fail_count,   \* users.auto_renew_fail_count
    device_limit,       \* users.device_limit
    restore_tasks,      \* the tasks spawned by temp_disable_device_limit, in
                        \* the order of their spawning
    fail_streak,        \* per account: the failed attempts recorded one after
                        \* the other, with no recorded success, no enabling and
                        \* no removal of the payment method in between
    proc                \* per worker: the request in flight with its locals,
                        \* or (pc = "done") the response it sent last

vars == <<now, registered, subscription_end, is_active, plan, referral_id,
          referrals, remote, reported, promo_codes, promo_usages, auto_renew,
          payment_method_id, auto_renew_plan, auto_renew_duration,
          auto_renew_last_attempt, auto_renew_fail_count, fail_streak,
          device_limit, restore_tasks, proc>>

userVars == <<registered, subscription_end, is_active, plan, referral_id, referrals>>

promoVars == <<promo_codes, promo_usages>>

renewVars == <<auto_renew, payment_method_id, auto_renew_plan, auto_renew_duration,
               auto_renew_last_attempt, auto_renew_fail_count, fail_streak>>

\* NULL in payment_method_id, in auto_renew_plan and auto_renew_duration, and
\* in auto_renew_last_attempt
NoMethod == "null"
NoTerm == "null"
NoTime == 0 - 1

\* hwidDeviceLimit of POST /users
DefaultLimit == 2

\* a row's auto-renewal columns when it is inserted: the column defaults
RenewDefaults ==
    /\ auto_renew = [a \in Accounts |-> FALSE]
    /\ payment_method_id = [a \in Accounts |-> NoMethod]
    /\ auto_renew_plan = [a \in Accounts |-> NoTerm]
    /\ auto_renew_duration = [a \in Accounts |-> NoTerm]
    /\ auto_renew_last_attempt = [a \in Accounts |-> NoTime]
    /\ auto_renew_fail_count = [a \in Accounts |-> 0]
    /\ fail_streak = [a \in Accounts |-> 0]

limitVars == <<device_limit, restore_tasks>>

\* a row's device_limit when it is inserted (create_user names no value for
\* the column; it is taken to be the limit create_user sends to the
\* provisioning service), and no task spawned
LimitDefaults ==
    /\ device_limit = [a \in Accounts |-> DefaultLimit]
    /\ restore_tasks = <<>>

NoPromo == [present |-> FALSE, max_uses |-> 0, current_uses |-> 0,
            is_active |-> FALSE, applicable_tariffs |-> {}]

Max(a, b) == IF a >= b THEN a ELSE b

\* $1 * INTERVAL '1 day' and chrono::Duration::days, in ticks
Days(d) == d + d

Idle == [op |-> "idle", pc |-> "idle"]

\* a worker takes a new request when it has none in flight
Free(p) == proc[p].pc \in {"idle", "done"}

NoRemote == [created |-> 0, status |-> "NONE", expireAt |-> 0,
             tag |-> "NONE", hwidDeviceLimit |-> 0]

(***************************************************************************)
(* extend_subscription: the values derived from the requested plan.        *)
(***************************************************************************)
DeviceLimit(pl) ==
    IF pl \in {"base", "bsbase"} THEN 2
    ELSE IF pl \in {"family", "bsfamily"} THEN 10
    ELSE 2

Tag(pl) ==
    IF pl \in {"base", "bsbase", "family", "bsfamily"} THEN "PAID"
    ELSE IF pl = "trial" THEN "TRIAL"
    ELSE IF pl = "free" THEN "FREE"
    ELSE "UNKNOWN"

PlanChangedOnAnyDifference(stored, pl) == stored # pl

PlanChanged(stored, pl) == stored # pl /\ pl # "trial" /\ pl # "free"

\* expire_at as sent to the provisioning service
EffectiveStart(changed, end, t) == IF changed THEN t ELSE Max(end, t)

ExpireAt(changed, end, t, days) == EffectiveStart(changed, end, t) + Days(days)

PlanChangeEndKeepsOld(end, t, days) == Max(end, t) + Days(days)

\* SET subscription_end = NOW() + $1 * INTERVAL '1 day'
PlanChangeEnd(end, t, days) == t + Days(days)

SamePlanEndFromNow(end, t, days) == t + Days(days)

\* SET subscription_end = GREATEST(subscription_end, NOW()) + $1 * INTERVAL '1 day'
SamePlanEnd(end, t, days) == Max(end, t) + Days(days)

(***************************************************************************)
(* Init: an empty store, nothing provisioned, no request in flight.        *)
(***************************************************************************)
Init ==
    /\ now = 0
    /\ registered = {}
    /\ subscription_end = [a \in Accounts |-> 0]
    /\ is_active = [a \in Accounts |-> 0]
    /\ plan = [a \in Accounts |-> "unset"]
    /\ referral_id = [a \in Accounts |-> NoAccount]
    /\ referrals = [a \in Accounts |-> <<>>]
    /\ remote = [a \in Accounts |-> NoRemote]
    /\ reported = [a \in Accounts |-> [grace |-> 0, inactive |-> 0]]
    /\ promo_codes = [c \in Codes |-> NoPromo]
    /\ promo_usages = [c \in Codes |-> [a \in Accounts |-> 0]]
    /\ RenewDefaults
    /\ LimitDefaults
    /\ proc = [p \in Procs |-> Idle]

\* time passes, up to the given end of the run
TickUpTo(limit) ==
    /\ now < limit
    /\ now' = now + 1
    /\ UNCHANGED <<userVars, remote, reported, promoVars, renewVars, limitVars,
                   proc>>

Tick == TickUpTo(MaxTime)

\* the response of a handler that touched one account
Response(name, result, a, calls, remoteDone, localDone) ==
    [op |-> name, pc |-> "done", result |-> result, acct |-> a, calls |-> calls,
     remoteDone |-> remoteDone, localDone |-> localDone]

(***************************************************************************)
(* create_user                                                             *)
(***************************************************************************)
\* array_append(referrals, $1) WHERE telegram_id = $2: no row, no change
AppendReferral(refs, parent, child, rows) ==
    IF parent \in rows
    THEN [refs EXCEPT ![parent] = Append(@, child)]
    ELSE refs

\* create_user without the answer 409: every request goes on to POST /users
CreateUserCheckAlwaysNew(p, a, ref) ==
    /\ Free(p)
    /\ proc' = [proc EXCEPT ![p] =
                  [op |-> "create_user", pc |-> "api", acct |-> a, ref |-> ref]]
    /\ UNCHANGED <<now, limitVars, userVars, remote, reported, promoVars, renewVars>>

\* SELECT telegram_id FROM users WHERE telegram_id = $1
CreateUserCheck(p, a, ref) ==
    /\ Free(p)
    /\ proc' = [proc EXCEPT ![p] =
                  IF a \in registered
                  THEN Response("create_user", "Conflict", a, 0, FALSE, FALSE)
                  ELSE [op |-> "create_user", pc |-> "api", acct |-> a, ref |-> ref]]
    /\ UNCHANGED <<now, limitVars, userVars, remote, reported, promoVars, renewVars>>

\* POST /users succeeded: the service has one more user for the account (the
\* request carries no key that would make a repeated POST the same user)
RemoteCreated(r, t) ==
    [r EXCEPT !.created = @ + 1, !.status = "DISABLED", !.expireAt = t,
              !.hwidDeviceLimit = 2]

\* POST /users at the provisioning service
CreateUserApi(p) ==
    /\ proc[p].op = "create_user" /\ proc[p].pc = "api"
    /\ LET a == proc[p].acct IN
       \/ /\ remote[a].created < MaxCreated
          /\ remote' = [remote EXCEPT ![a] = RemoteCreated(@, now)]
          /\ proc' = [proc EXCEPT ![p].pc = "db"]
       \/ \* transport error or non-success response
          /\ remote' = remote
          /\ proc' = [proc EXCEPT ![p] =
                Response("create_user", "InternalServerError", a, 1, FALSE, FALSE)]
    /\ UNCHANGED <<now, limitVars, userVars, reported, promoVars, renewVars>>

\* BEGIN; INSERT INTO users ...; UPDATE users SET referrals = ...; COMMIT
CreateUserDb(p) ==
    /\ proc[p].op = "create_user" /\ proc[p].pc = "db"
    /\ LET a == proc[p].acct
           ref == proc[p].ref IN
       \/ /\ a \notin registered
          /\ \E pl \in DefaultPlans :
                /\ registered' = registered \cup {a}
                /\ subscription_end' = [subscription_end EXCEPT ![a] = now + Days(0)]
                /\ is_active' = [is_active EXCEPT ![a] = 0]
                /\ plan' = [plan EXCEPT ![a] = pl]
                /\ referral_id' = [referral_id EXCEPT ![a] = ref]
                /\ referrals' = IF ref # NoAccount
                                THEN AppendReferral(referrals, ref, a, registered \cup {a})
                                ELSE referrals
          /\ proc' = [proc EXCEPT ![p] =
                Response("create_user", "Ok", a, 1, TRUE, TRUE)]
       \/ \* the INSERT or the COMMIT fails (a duplicate telegram_id included)
          /\ UNCHANGED userVars
          /\ proc' = [proc EXCEPT ![p] =
                Response("create_user", "InternalServerError", a, 1, TRUE, FALSE)]
    /\ UNCHANGED <<now, limitVars, remote, reported, promoVars, renewVars>>

(***************************************************************************)
(* extend_subscription                                                     *)
(***************************************************************************)
\* SELECT * FROM users WHERE telegram_id = $1, then the request's values.
\* The guard on subscription_end keeps the model finite.
ExtendRead(p, a, days, pl) ==
    /\ Free(p)
    /\ a \in registered => subscription_end[a] <= MaxEnd
    /\ proc' = [proc EXCEPT ![p] =
          IF a \notin registered
          THEN Response("extend_subscription", "NotFound", a, 0, FALSE, FALSE)
          ELSE LET changed == PlanChanged(plan[a], pl) IN
               [op |-> "extend_subscription", pc |-> "api", acct |-> a,
                days |-> days, plan |-> pl, read_plan |-> plan[a],
                plan_changed |-> changed,
                expire_at |-> ExpireAt(changed, subscription_end[a], now, days)]]
    /\ UNCHANGED <<now, limitVars, userVars, remote, reported, promoVars, renewVars>>

\* PATCH /users succeeded: the service's record after it
RemoteExtended(r, pl, expire_at) ==
    [r EXCEPT !.status = "ACTIVE", !.expireAt = expire_at,
              !.tag = Tag(pl), !.hwidDeviceLimit = DeviceLimit(pl)]

ExtendApiFailedButWritten(p) ==
    /\ proc' = [proc EXCEPT ![p] =
          Response("extend_subscription", "InternalServerError", proc[p].acct,
                   1, FALSE, FALSE)]
    /\ is_active' = [is_active EXCEPT ![proc[p].acct] = 1]
    /\ plan' = [plan EXCEPT ![proc[p].acct] = proc[p].plan]
    /\ UNCHANGED <<registered, subscription_end, referral_id, referrals,
                   remote, reported>>

\* the transport error and the non-success response: 500, nothing written
ExtendApiFailed(p) ==
    /\ proc' = [proc EXCEPT ![p] =
          Response("extend_subscription", "InternalServerError", proc[p].acct,
                   1, FALSE, FALSE)]
    /\ UNCHANGED <<userVars, remote, reported>>

ExtendApi(p) ==
    /\ proc[p].op = "extend_subscription" /\ proc[p].pc = "api"
    /\ \/ /\ remote' = [remote EXCEPT ![proc[p].acct] =
                          RemoteExtended(@, proc[p].plan, proc[p].expire_at)]
          /\ proc' = [proc EXCEPT ![p].pc = "db"]
          /\ UNCHANGED <<userVars, reported>>
       \/ ExtendApiFailed(p)
    /\ UNCHANGED <<now, limitVars, promoVars, renewVars>>

ExtendUpdateFromNow(changed, end, t, days) == PlanChangeEnd(end, t, days)

\* the UPDATE users ... RETURNING * of either branch
ExtendUpdate(changed, end, t, days) ==
    IF changed THEN PlanChangeEnd(end, t, days) ELSE SamePlanEnd(end, t, days)

ExtendDbKeepsStatus(p) ==
    /\ proc[p].op = "extend_subscription" /\ proc[p].pc = "db"
    /\ LET a == proc[p].acct
           new_end == ExtendUpdate(proc[p].plan_changed, subscription_end[a],
                                   now, proc[p].days) IN
       \/ /\ subscription_end' = [subscription_end EXCEPT ![a] = new_end]
          /\ is_active' = is_active
          /\ plan' = [plan EXCEPT ![a] = proc[p].plan]
          /\ reported' = [reported EXCEPT ![a] = [grace |-> 0, inactive |-> 0]]
          /\ proc' = [proc EXCEPT ![p] =
                [op |-> "extend_subscription", pc |-> "done", result |-> "Ok",
                 acct |-> a, calls |-> 1, remoteDone |-> TRUE, localDone |-> TRUE,
                 days |-> proc[p].days, plan |-> proc[p].plan,
                 read_plan |-> proc[p].read_plan,
                 old_end |-> subscription_end[a], at |-> now,
                 subscription_end |-> new_end]]
          /\ UNCHANGED <<registered, referral_id, referrals>>
       \/ \* the UPDATE fails: 500 "Failed to update database"
          /\ UNCHANGED <<userVars, reported>>
          /\ proc' = [proc EXCEPT ![p] =
                Response("extend_subscription", "InternalServerError", a,
                         1, TRUE, FALSE)]
    /\ UNCHANGED <<now, limitVars, remote, promoVars, renewVars>>

ExtendDb(p) ==
    /\ proc[p].op = "extend_subscription" /\ proc[p].pc = "db"
    /\ LET a == proc[p].acct
           new_end == ExtendUpdate(proc[p].plan_changed, subscription_end[a],
                                   now, proc[p].days) IN
       \/ /\ subscription_end' = [subscription_end EXCEPT ![a] = new_end]
          /\ is_active' = [is_active EXCEPT ![a] = 1]
          /\ plan' = [plan EXCEPT ![a] = proc[p].plan]
          /\ reported' = [reported EXCEPT ![a] = [grace |-> 0, inactive |-> 0]]
          /\ proc' = [proc EXCEPT ![p] =
                [op |-> "extend_subscription", pc |-> "done", result |-> "Ok",
                 acct |-> a, calls |-> 1, remoteDone |-> TRUE, localDone |-> TRUE,
                 days |-> proc[p].days, plan |-> proc[p].plan,
                 read_plan |-> proc[p].read_plan,
                 old_end |-> subscription_end[a], at |-> now,
                 subscription_end |-> new_end]]
          /\ UNCHANGED <<registered, referral_id, referrals>>
       \/ \* the UPDATE fails: 500 "Failed to update database"
          /\ UNCHANGED <<userVars, reported>>
          /\ proc' = [proc EXCEPT ![p] =
                Response("extend_subscription", "InternalServerError", a,
                         1, TRUE, FALSE)]
    /\ UNCHANGED <<now, limitVars, remote, promoVars, renewVars>>

(***************************************************************************)
(* get_expiring_users and get_expired_users: BEGIN; SELECT; UPDATE; COMMIT *)
(* under the store's default isolation (read committed): the SELECT takes  *)
(* no lock, and the UPDATE names the selected ids only.                    *)
(***************************************************************************)
ExpiringHalfOpen(a, t, h) ==
    /\ a \in registered
    /\ is_active[a] = 1
    /\ t <= subscription_end[a] /\ subscription_end[a] < t + Days(h)

\* is_active = 1 AND subscription_end BETWEEN NOW() AND $1
Expiring(a, t, h) ==
    /\ a \in registered
    /\ is_active[a] = 1
    /\ t <= subscription_end[a] /\ subscription_end[a] <= t + Days(h)

ExpiredAtNow(a, t) ==
    /\ a \in registered
    /\ is_active[a] = 2
    /\ subscription_end[a] <= t

\* is_active = 2 AND subscription_end < NOW()
Expired(a, t) ==
    /\ a \in registered
    /\ is_active[a] = 2
    /\ subscription_end[a] < t

SetStatusLost(ids, status) == is_active

\* UPDATE users SET is_active = $status WHERE telegram_id = ANY($1)
SetStatus(ids, status) ==
    [a \in Accounts |-> IF a \in ids /\ a \in registered THEN status ELSE is_active[a]]

\* the response of a sweep: the rows it returns, and what the provisioning
\* service holds for them when it returns; at is NOW() of its SELECT and h
\* the days it was asked for
SweepResponse(name, result, ids, at, h) ==
    [op |-> name, pc |-> "done", result |-> result, ids |-> ids, calls |-> 0,
     remoteStatus |-> [a \in ids |-> remote[a].status], at |-> at, horizon |-> h]

SweepSelect(p, name, sel, h) ==
    /\ Free(p)
    /\ proc' = [proc EXCEPT ![p] =
          IF sel = {}
          THEN SweepResponse(name, "Ok", {}, now, h)
          ELSE [op |-> name, pc |-> "update", sel |-> sel, at |-> now,
                horizon |-> h]]
    /\ UNCHANGED <<now, limitVars, userVars, remote, reported, promoVars, renewVars>>

SweepUpdate(p, name, status, phase) ==
    /\ proc[p].op = name /\ proc[p].pc = "update"
    /\ LET sel == proc[p].sel IN
       \/ /\ is_active' = SetStatus(sel, status)
          /\ reported' = [a \in Accounts |->
                            IF a \in sel THEN [reported[a] EXCEPT ![phase] = @ + 1]
                            ELSE reported[a]]
          /\ proc' = [proc EXCEPT ![p] =
                SweepResponse(name, "Ok", sel, proc[p].at, proc[p].horizon)]
       \/ \* the UPDATE or the COMMIT fails: rolled back
          /\ UNCHANGED <<is_active, reported>>
          /\ proc' = [proc EXCEPT ![p] =
                SweepResponse(name, "InternalServerError", {}, proc[p].at,
                              proc[p].horizon)]
    /\ UNCHANGED <<now, limitVars, registered, subscription_end, plan, referral_id,
                   referrals, remote, promoVars, renewVars>>

ExpiringSelect(p, h) ==
    SweepSelect(p, "get_expiring_users", {a \in Accounts : Expiring(a, now, h)}, h)

ExpiringUpdate(p) == SweepUpdate(p, "get_expiring_users", 2, "grace")

ExpiredSelect(p) ==
    SweepSelect(p, "get_expired_users", {a \in Accounts : Expired(a, now)}, 0)

ExpiredUpdate(p) == SweepUpdate(p, "get_expired_users", 0, "inactive")

(***************************************************************************)
(* Registration and extension.                                             *)
(***************************************************************************)
ExtendedAccounts == 1..NumExtended

NextExtend ==
    \/ Tick
    \/ \E p \in Procs, a \in ExtendedAccounts : CreateUserCheck(p, a, NoAccount)
    \/ \E p \in Procs : CreateUserApi(p)
    \/ \E p \in Procs : CreateUserDb(p)
    \/ \E p \in Procs, a \in ExtendedAccounts, d \in DayCounts, pl \in Plans :
          ExtendRead(p, a, d, pl)
    \/ \E p \in Procs : ExtendApi(p)
    \/ \E p \in Procs : ExtendDb(p)

SpecExtend == Init /\ [][NextExtend]_vars

ExtendDone(p) ==
    /\ proc[p].pc = "done"
    /\ proc[p].op = "extend_subscription"
    /\ proc[p].result = "Ok"

\* C1: a successful Extend whose requested plan equals the stored plan it
\* read persists subscription_end = max(old subscription_end, now) + days,
\* old and now being the row's value and the clock at the update; the new
\* value is never smaller than the old one.
C1_SamePlanExtend ==
    \A p \in Procs :
        (ExtendDone(p) /\ proc[p].plan = proc[p].read_plan) =>
            /\ proc[p].subscription_end =
                    Max(proc[p].old_end, proc[p].at) + Days(proc[p].days)
            /\ proc[p].subscription_end >= proc[p].old_end

\* a same-plan Extend of a subscription that had not run out yet
C1_Witness ==
    \E p \in Procs :
        /\ ExtendDone(p) /\ proc[p].plan = proc[p].read_plan
        /\ proc[p].old_end > proc[p].at
        /\ proc[p].days > 0
        /\ subscription_end[proc[p].acct] = proc[p].subscription_end

\* C2: a successful Extend whose requested plan differs from the stored plan
\* it read, and is neither trial nor free, persists subscription_end =
\* now + days whatever the old subscription_end was.
C2_PlanChangeExtend ==
    \A p \in Procs :
        (/\ ExtendDone(p)
         /\ proc[p].plan # proc[p].read_plan
         /\ proc[p].plan \notin {"trial", "free"}) =>
            proc[p].subscription_end = proc[p].at + Days(proc[p].days)

\* a plan change that cut a subscription still running beyond now + days
C2_Witness ==
    \E p \in Procs :
        /\ ExtendDone(p)
        /\ proc[p].plan # proc[p].read_plan
        /\ proc[p].plan \notin {"trial", "free"}
        /\ proc[p].old_end > proc[p].at + Days(proc[p].days)
        /\ subscription_end[proc[p].acct] < proc[p].old_end

\* C3: when the provisioning call of Extend fails, Extend answers with an
\* error and that step leaves subscription_end, status and plan as they were.
C3_AdapterFailureNoMutation ==
    [][\A p \in Procs :
          (/\ proc[p].op = "extend_subscription"
           /\ proc[p].pc = "api"
           /\ proc'[p].pc = "done") =>
              /\ proc'[p].result = "InternalServerError"
              /\ subscription_end' = subscription_end
              /\ is_active' = is_active
              /\ plan' = plan]_vars

\* an Extend of a never-extended account failed at the provisioning call
C3_Witness ==
    \E p \in Procs :
        /\ proc[p].pc = "done" /\ proc[p].op = "extend_subscription"
        /\ proc[p].result = "InternalServerError"
        /\ proc[p].calls = 1 /\ ~proc[p].remoteDone
        /\ is_active[proc[p].acct] = 0

\* C4: after a Register or Extend has answered, the remote provisioning
\* state and the local row both reflect the transition or neither does.
C4_NoPartialSuccess ==
    \A p \in Procs :
        (proc[p].pc = "done" /\ proc[p].op \in {"create_user", "extend_subscription"})
            => (proc[p].remoteDone <=> proc[p].localDone)

(***************************************************************************)
(* The sweeps, with the extensions that make entitlements ACTIVE.  The     *)
(* run starts with the swept accounts registered at time 0.                *)
(***************************************************************************)
SweptAccounts == 1..NumSwept

RegisteredAtStart(rows) ==
    /\ now = 0
    /\ registered = rows
    /\ subscription_end = [a \in Accounts |-> 0]
    /\ is_active = [a \in Accounts |-> 0]
    /\ \E pl \in DefaultPlans :
          plan = [a \in Accounts |-> IF a \in rows THEN pl ELSE "unset"]
    /\ referral_id = [a \in Accounts |-> NoAccount]
    /\ referrals = [a \in Accounts |-> <<>>]
    /\ remote = [a \in Accounts |->
                    IF a \in rows THEN RemoteCreated(NoRemote, 0) ELSE NoRemote]
    /\ reported = [a \in Accounts |-> [grace |-> 0, inactive |-> 0]]
    /\ promo_codes = [c \in Codes |-> NoPromo]
    /\ promo_usages = [c \in Codes |-> [a \in Accounts |-> 0]]
    /\ RenewDefaults
    /\ LimitDefaults
    /\ proc = [p \in Procs |-> Idle]

InitSweep == RegisteredAtStart(SweptAccounts)

NextSweep ==
    \/ Tick
    \/ \E p \in Procs, a \in SweptAccounts, d \in DayCounts :
          ExtendRead(p, a, d, "base")
    \/ \E p \in Procs : ExtendApi(p)
    \/ \E p \in Procs : ExtendDb(p)
    \/ \E p \in Procs, h \in Horizons : ExpiringSelect(p, h)
    \/ \E p \in Procs : ExpiringUpdate(p)
    \/ \E p \in Procs : ExpiredSelect(p)
    \/ \E p \in Procs : ExpiredUpdate(p)

SpecSweep == InitSweep /\ [][NextSweep]_vars

\* C5: a batch of Advance-to-Inactive sets its entitlements to INACTIVE only
\* when a remote Revoke was invoked, and succeeded, for every one of them.
C5_RevokeBeforeCommit ==
    \A p \in Procs :
        (/\ proc[p].pc = "done" /\ proc[p].op = "get_expired_users"
         /\ proc[p].ids # {}) =>
            /\ proc[p].calls = Cardinality(proc[p].ids)
            /\ \A a \in proc[p].ids : proc[p].remoteStatus[a] # "ACTIVE"

\* C6: no entitlement is returned by two invocations of the same sweep phase
\* for the same expiry (without an extension in between).
C6_DisjointClaims ==
    \A a \in Accounts : reported[a].grace <= 1 /\ reported[a].inactive <= 1

(***************************************************************************)
(* The promo ledger: create_promo, deactivate_promo, validate_promo,       *)
(* use_promo.                                                              *)
(***************************************************************************)
\* the row INSERT INTO promo_codes (code, discount_percent,
\* applicable_tariffs, max_uses) makes: current_uses and is_active take
\* the column defaults
NewPromo(tariffs, max_uses) ==
    [present |-> TRUE, max_uses |-> max_uses, current_uses |-> 0,
     is_active |-> TRUE, applicable_tariffs |-> tariffs]

\* the uniqueness constraint of promo_usages over (promo_code_id, telegram_id)
UsageExists(c, a) == promo_usages[c][a] > 0

\* another transaction has inserted the same pair and not finished: the
\* unique index makes this one wait for it
UsagePending(p, c, a) ==
    \E q \in Procs \ {p} :
        /\ proc[q].op = "use_promo" /\ proc[q].pc = "update"
        /\ proc[q].code = c /\ proc[q].acct = a

PromoResponse(name, result, c, a, duplicate) ==
    [op |-> name, pc |-> "done", result |-> result, code |-> c, acct |-> a,
     duplicate |-> duplicate]

CreatePromo(p, c, tariffs, max_uses) ==
    /\ Free(p)
    /\ IF promo_codes[c].present
       THEN \* the code is unique: the INSERT fails
            /\ promo_codes' = promo_codes
            /\ proc' = [proc EXCEPT ![p] =
                  PromoResponse("create_promo", "InternalServerError", c, NoAccount, TRUE)]
       ELSE /\ promo_codes' = [promo_codes EXCEPT ![c] = NewPromo(tariffs, max_uses)]
            /\ proc' = [proc EXCEPT ![p] =
                  PromoResponse("create_promo", "Ok", c, NoAccount, FALSE)]
    /\ UNCHANGED <<now, limitVars, userVars, remote, reported, promo_usages, renewVars>>

\* UPDATE promo_codes SET is_active = false WHERE code = $1
DeactivatePromo(p, c) ==
    /\ Free(p)
    /\ IF promo_codes[c].present
       THEN /\ promo_codes' = [promo_codes EXCEPT ![c].is_active = FALSE]
            /\ proc' = [proc EXCEPT ![p] =
                  PromoResponse("deactivate_promo", "Ok", c, NoAccount, FALSE)]
       ELSE /\ promo_codes' = promo_codes
            /\ proc' = [proc EXCEPT ![p] =
                  PromoResponse("deactivate_promo", "NotFound", c, NoAccount, FALSE)]
    /\ UNCHANGED <<now, limitVars, userVars, remote, reported, promo_usages, renewVars>>

\* validate_promo: the checks on the promo_codes row, in the code's order
ValidateResponse(c, a, valid, reason) ==
    [op |-> "validate_promo", pc |-> "done", result |-> "Ok", code |-> c,
     acct |-> a, valid |-> valid, reason |-> reason]

PromoRowReason(row, tariff) ==
    IF ~row.present THEN "not found"
    ELSE IF ~row.is_active THEN "deactivated"
    ELSE IF row.current_uses >= row.max_uses THEN "exhausted"
    ELSE IF tariff # "" /\ tariff \notin row.applicable_tariffs THEN "not applicable"
    ELSE "none"

ValidateRead(p, c, tariff, a) ==
    /\ Free(p)
    /\ LET reason == PromoRowReason(promo_codes[c], tariff) IN
       proc' = [proc EXCEPT ![p] =
          IF reason # "none"
          THEN ValidateResponse(c, a, FALSE, reason)
          ELSE [op |-> "validate_promo", pc |-> "usage", code |-> c, acct |-> a]]
    /\ UNCHANGED <<now, limitVars, userVars, remote, reported, promoVars, renewVars>>

\* SELECT id FROM promo_usages WHERE promo_code_id = $1 AND telegram_id = $2;
\* .unwrap_or(None) turns an error of the query into "no row"
ValidateUsage(p) ==
    /\ proc[p].op = "validate_promo" /\ proc[p].pc = "usage"
    /\ LET c == proc[p].code
           a == proc[p].acct IN
       \/ proc' = [proc EXCEPT ![p] =
             IF UsageExists(c, a)
             THEN ValidateResponse(c, a, FALSE, "already used")
             ELSE ValidateResponse(c, a, TRUE, "none")]
       \/ \* the query fails
          proc' = [proc EXCEPT ![p] = ValidateResponse(c, a, TRUE, "none")]
    /\ UNCHANGED <<now, limitVars, userVars, remote, reported, promoVars, renewVars>>

\* use_promo: BEGIN; SELECT id FROM promo_codes WHERE code = $1 AND is_active
UseBegin(p, c, a) ==
    /\ Free(p)
    /\ proc' = [proc EXCEPT ![p] =
          IF promo_codes[c].present /\ promo_codes[c].is_active
          THEN [op |-> "use_promo", pc |-> "insert", code |-> c, acct |-> a]
          ELSE PromoResponse("use_promo", "NotFound", c, a, FALSE)]
    /\ UNCHANGED <<now, limitVars, userVars, remote, reported, promoVars, renewVars>>

\* INSERT INTO promo_usages: staged in the transaction, or an error, which
\* rolls back and answers 500
UseInsert(p) ==
    /\ proc[p].op = "use_promo" /\ proc[p].pc = "insert"
    /\ LET c == proc[p].code
           a == proc[p].acct IN
       /\ ~UsagePending(p, c, a)
       /\ \/ /\ ~UsageExists(c, a)
             /\ proc' = [proc EXCEPT ![p].pc = "update"]
          \/ proc' = [proc EXCEPT ![p] =
                PromoResponse("use_promo", "InternalServerError", c, a,
                              UsageExists(c, a))]
    /\ UNCHANGED <<now, limitVars, userVars, remote, reported, promoVars, renewVars>>

UsesAfterLostUpdate(n) == n

\* SET current_uses = current_uses + 1
UsesAfter(n) == n + 1

\* UPDATE promo_codes ...; COMMIT: the staged usage row and the increment
\* become visible together; a failure of either rolls both back
UseCommit(p) ==
    /\ proc[p].op = "use_promo" /\ proc[p].pc = "update"
    /\ LET c == proc[p].code
           a == proc[p].acct IN
       \/ /\ promo_usages' = [promo_usages EXCEPT ![c][a] = @ + 1]
          /\ promo_codes' = [promo_codes EXCEPT ![c].current_uses = UsesAfter(@)]
          /\ proc' = [proc EXCEPT ![p] = PromoResponse("use_promo", "Ok", c, a, FALSE)]
       \/ /\ UNCHANGED promoVars
          /\ proc' = [proc EXCEPT ![p] =
                PromoResponse("use_promo", "InternalServerError", c, a, FALSE)]
    /\ UNCHANGED <<now, limitVars, userVars, remote, reported, renewVars>>

NextPromo ==
    \/ \E p \in Procs, c \in Codes, m \in 1..MaxUses : CreatePromo(p, c, {"base"}, m)
    \/ \E p \in Procs, c \in Codes : DeactivatePromo(p, c)
    \/ \E p \in Procs, c \in Codes, t \in Tariffs, a \in Accounts :
          ValidateRead(p, c, t, a)
    \/ \E p \in Procs : ValidateUsage(p)
    \/ \E p \in Procs, c \in Codes, a \in Accounts : UseBegin(p, c, a)
    \/ \E p \in Procs : UseInsert(p)
    \/ \E p \in Procs : UseCommit(p)

SpecPromo == Init /\ [][NextPromo]_vars

RECURSIVE UsageRows(_, _)
\* the number of promo_usages rows of code c for the accounts 1..n
UsageRows(c, n) == IF n = 0 THEN 0 ELSE promo_usages[c][n] + UsageRows(c, n - 1)

\* C7: every (promo code, account) pair has at most one usage row, at most
\* one Use of a pair succeeds, and a Use that loses to an existing row of
\* its pair fails with Conflict.
C7_OneUsePerPair ==
    /\ \A c \in Codes, a \in Accounts : promo_usages[c][a] <= 1
    /\ \A p \in Procs :
          (/\ proc[p].pc = "done" /\ proc[p].op = "use_promo"
           /\ proc[p].duplicate) => proc[p].result = "Conflict"

\* C8: every promo code has current_uses <= max_uses.
C8_UsesWithinMax ==
    \A c \in Codes :
        promo_codes[c].present => promo_codes[c].current_uses <= promo_codes[c].max_uses

\* C9: each promo code's current_uses equals the number of usage rows
\* recorded for it.
C9_UsesEqualRows ==
    \A c \in Codes : promo_codes[c].current_uses = UsageRows(c, NumAccounts)

\* a code used by two accounts, and a Use of it that was rolled back
C9_Witness ==
    \E c \in Codes, p \in Procs :
        /\ promo_codes[c].current_uses = 2
        /\ proc[p].pc = "done" /\ proc[p].op = "use_promo"
        /\ proc[p].code = c /\ proc[p].result = "InternalServerError"

(***************************************************************************)
(* add_referral: four statements, each committed on its own.               *)
(***************************************************************************)
ReferralResponse(result, parent, child) ==
    [op |-> "add_referral", pc |-> "done", result |-> result,
     parent |-> parent, child |-> child]

\* referrals.contains(&referred_telegram_id)
Contains(refs, a) == \E i \in 1..Len(refs) : refs[i] = a

\* SELECT referral_id FROM users WHERE telegram_id = $1 (the invited user)
AddReferralReadChild(p, parent, child) ==
    /\ Free(p)
    /\ proc' = [proc EXCEPT ![p] =
          IF child \notin registered \/ referral_id[child] # NoAccount
          THEN ReferralResponse("BadRequest", parent, child)
          ELSE [op |-> "add_referral", pc |-> "parent",
                parent |-> parent, child |-> child]]
    /\ UNCHANGED <<now, limitVars, userVars, remote, reported, promoVars, renewVars>>

\* SELECT referrals FROM users WHERE telegram_id = $1 (the inviter)
AddReferralReadParent(p) ==
    /\ proc[p].op = "add_referral" /\ proc[p].pc = "parent"
    /\ LET parent == proc[p].parent
           child == proc[p].child IN
       proc' = [proc EXCEPT ![p] =
          IF parent \notin registered \/ Contains(referrals[parent], child)
          THEN ReferralResponse("BadRequest", parent, child)
          ELSE [proc[p] EXCEPT !.pc = "append"]]
    /\ UNCHANGED <<now, limitVars, userVars, remote, reported, promoVars, renewVars>>

\* UPDATE users SET referrals = array_append(referrals, $1) WHERE telegram_id = $2
AddReferralAppend(p) ==
    /\ proc[p].op = "add_referral" /\ proc[p].pc = "append"
    /\ LET parent == proc[p].parent
           child == proc[p].child IN
       \/ /\ referrals' = AppendReferral(referrals, parent, child, registered)
          /\ proc' = [proc EXCEPT ![p].pc = "set"]
       \/ /\ referrals' = referrals
          /\ proc' = [proc EXCEPT ![p] =
                ReferralResponse("InternalServerError", parent, child)]
    /\ UNCHANGED <<now, limitVars, registered, subscription_end, is_active, plan,
                   referral_id, remote, reported, promoVars, renewVars>>

\* UPDATE users SET referral_id = $1 WHERE telegram_id = $2
AddReferralSet(p) ==
    /\ proc[p].op = "add_referral" /\ proc[p].pc = "set"
    /\ LET parent == proc[p].parent
           child == proc[p].child IN
       \/ /\ referral_id' = [referral_id EXCEPT ![child] = parent]
          /\ proc' = [proc EXCEPT ![p] = ReferralResponse("Ok", parent, child)]
       \/ /\ referral_id' = referral_id
          /\ proc' = [proc EXCEPT ![p] =
                ReferralResponse("InternalServerError", parent, child)]
    /\ UNCHANGED <<now, limitVars, registered, subscription_end, is_active, plan,
                   referrals, remote, reported, promoVars, renewVars>>

(***************************************************************************)
(* The referral graph.  The run starts with all accounts but the last      *)
(* registered, without inviter; the last one registers during the run and  *)
(* is the account the requests name as invited.                            *)
(***************************************************************************)
Invited == NumAccounts

InitReferral == RegisteredAtStart(Accounts \ {Invited})

NextReferral ==
    \/ \E p \in Procs, ref \in Accounts \cup {NoAccount} :
          CreateUserCheck(p, Invited, ref)
    \/ \E p \in Procs : CreateUserApi(p)
    \/ \E p \in Procs : CreateUserDb(p)
    \/ \E p \in Procs, parent \in Accounts :
          AddReferralReadChild(p, parent, Invited)
    \/ \E p \in Procs : AddReferralReadParent(p)
    \/ \E p \in Procs : AddReferralAppend(p)
    \/ \E p \in Procs : AddReferralSet(p)

SpecReferral == InitReferral /\ [][NextReferral]_vars

\* the accounts whose referrals hold a
ParentsListing(a) == {q \in Accounts : Contains(referrals[q], a)}

\* C10: once an account's referral_id is set it never changes, and the
\* account is never in the referrals of a second parent.
C10_ReferralSetOnce ==
    /\ [][\A a \in Accounts :
            referral_id[a] # NoAccount => referral_id'[a] = referral_id[a]]_vars
    /\ [](\A a \in Accounts :
            referral_id[a] # NoAccount => Cardinality(ParentsListing(a)) <= 1)

\* the accounts reached from a in at most n steps along referral_id
RECURSIVE InvitersWithin(_, _)
InvitersWithin(a, n) ==
    IF n = 0 \/ referral_id[a] = NoAccount THEN {}
    ELSE {referral_id[a]} \cup InvitersWithin(referral_id[a], n - 1)

\* the accounts reached from a by following referral_id
Inviters(a) == InvitersWithin(a, NumAccounts)

\* C11: the referral graph is a forest: following referral_id from an
\* account never leads back to that account.
C11_ReferralForest == \A a \in Accounts : a \notin Inviters(a)

(***************************************************************************)
(* Auto-renewal: the payment method, the switch, the due query and the     *)
(* recording of attempts.  Each handler is one autocommitted statement,    *)
(* but enabling auto_renew, which reads payment_method_id and then writes. *)
(***************************************************************************)
\* INTERVAL '12 hours', in ticks
Hours12 == 1

\* auto_renew_fail_count + 1 >= 3
BreakerThreshold == 3

Methods == {"card"}
\* the plan and the duration of a request, absent (NoTerm) in some toggles
TermPlans == {"base"}
TermDurations == {"1m"}

RenewResponse(name, result, a, detail) ==
    [op |-> name, pc |-> "done", result |-> result, acct |-> a, detail |-> detail]

\* UPDATE users SET column = v WHERE telegram_id = a
SetColumn(column, a, v) ==
    IF a \in registered THEN [column EXCEPT ![a] = v] ELSE column

SavePaymentMethod(p, a, pm, pl, dur) ==
    /\ Free(p)
    /\ \/ /\ payment_method_id' = SetColumn(payment_method_id, a, pm)
          /\ auto_renew_plan' = SetColumn(auto_renew_plan, a, pl)
          /\ auto_renew_duration' = SetColumn(auto_renew_duration, a, dur)
          /\ proc' = [proc EXCEPT ![p] =
                RenewResponse("save_payment_method",
                              IF a \in registered THEN "Ok" ELSE "NotFound", a, "none")]
       \/ /\ UNCHANGED <<payment_method_id, auto_renew_plan, auto_renew_duration>>
          /\ proc' = [proc EXCEPT ![p] =
                RenewResponse("save_payment_method", "InternalServerError", a, "none")]
    /\ UNCHANGED <<now, limitVars, userVars, remote, reported, promoVars, auto_renew,
                   auto_renew_last_attempt, auto_renew_fail_count, fail_streak>>

DeletePaymentMethod(p, a) ==
    /\ Free(p)
    /\ \/ /\ payment_method_id' = SetColumn(payment_method_id, a, NoMethod)
          /\ auto_renew' = SetColumn(auto_renew, a, FALSE)
          /\ auto_renew_plan' = SetColumn(auto_renew_plan, a, NoTerm)
          /\ auto_renew_duration' = SetColumn(auto_renew_duration, a, NoTerm)
          /\ auto_renew_fail_count' = SetColumn(auto_renew_fail_count, a, 0)
          /\ fail_streak' = SetColumn(fail_streak, a, 0)
          /\ proc' = [proc EXCEPT ![p] =
                RenewResponse("delete_payment_method",
                              IF a \in registered THEN "Ok" ELSE "NotFound", a, "none")]
       \/ /\ UNCHANGED <<payment_method_id, auto_renew, auto_renew_plan,
                         auto_renew_duration, auto_renew_fail_count, fail_streak>>
          /\ proc' = [proc EXCEPT ![p] =
                RenewResponse("delete_payment_method", "InternalServerError", a, "none")]
    /\ UNCHANGED <<now, limitVars, userVars, remote, reported, promoVars,
                   auto_renew_last_attempt>>

\* toggle_auto_renew enabling without looking at payment_method_id
ToggleEnableReadAnyMethod(p, a, pl, dur) ==
    /\ Free(p)
    /\ proc' = [proc EXCEPT ![p] =
          IF a \notin registered
          THEN RenewResponse("toggle_auto_renew", "NotFound", a, "user")
          ELSE IF pl = NoTerm
          THEN RenewResponse("toggle_auto_renew", "BadRequest", a, "plan")
          ELSE IF dur = NoTerm
          THEN RenewResponse("toggle_auto_renew", "BadRequest", a, "duration")
          ELSE [op |-> "toggle_auto_renew", pc |-> "update", acct |-> a,
                plan |-> pl, duration |-> dur]]
    /\ UNCHANGED <<now, limitVars, userVars, remote, reported, promoVars, renewVars>>

\* toggle_auto_renew with auto_renew = true: the SELECT of payment_method_id
\* and the checks of the request
ToggleEnableRead(p, a, pl, dur) ==
    /\ Free(p)
    /\ proc' = [proc EXCEPT ![p] =
          IF a \notin registered
          THEN RenewResponse("toggle_auto_renew", "NotFound", a, "user")
          ELSE IF payment_method_id[a] = NoMethod
          THEN RenewResponse("toggle_auto_renew", "BadRequest", a, "payment method")
          ELSE IF pl = NoTerm
          THEN RenewResponse("toggle_auto_renew", "BadRequest", a, "plan")
          ELSE IF dur = NoTerm
          THEN RenewResponse("toggle_auto_renew", "BadRequest", a, "duration")
          ELSE [op |-> "toggle_auto_renew", pc |-> "update", acct |-> a,
                plan |-> pl, duration |-> dur]]
    /\ UNCHANGED <<now, limitVars, userVars, remote, reported, promoVars, renewVars>>

\* the enabling UPDATE without auto_renew_fail_count = 0
ToggleEnableUpdateKeepsCount(p) ==
    /\ proc[p].op = "toggle_auto_renew" /\ proc[p].pc = "update"
    /\ LET a == proc[p].acct IN
       /\ auto_renew' = SetColumn(auto_renew, a, TRUE)
       /\ auto_renew_plan' = SetColumn(auto_renew_plan, a, proc[p].plan)
       /\ auto_renew_duration' = SetColumn(auto_renew_duration, a, proc[p].duration)
       /\ proc' = [proc EXCEPT ![p] =
             RenewResponse("toggle_auto_renew", "Ok", a, "enabled")]
    /\ UNCHANGED <<now, limitVars, userVars, remote, reported, promoVars,
                   payment_method_id, auto_renew_last_attempt,
                   auto_renew_fail_count, fail_streak>>

\* toggle_auto_renew with auto_renew = true: the UPDATE
ToggleEnableUpdate(p) ==
    /\ proc[p].op = "toggle_auto_renew" /\ proc[p].pc = "update"
    /\ LET a == proc[p].acct IN
       \/ /\ auto_renew' = SetColumn(auto_renew, a, TRUE)
          /\ auto_renew_plan' = SetColumn(auto_renew_plan, a, proc[p].plan)
          /\ auto_renew_duration' = SetColumn(auto_renew_duration, a, proc[p].duration)
          /\ auto_renew_fail_count' = SetColumn(auto_renew_fail_count, a, 0)
          /\ fail_streak' = SetColumn(fail_streak, a, 0)
          /\ proc' = [proc EXCEPT ![p] =
                RenewResponse("toggle_auto_renew", "Ok", a, "enabled")]
       \/ /\ UNCHANGED <<auto_renew, auto_renew_plan, auto_renew_duration,
                         auto_renew_fail_count, fail_streak>>
          /\ proc' = [proc EXCEPT ![p] =
                RenewResponse("toggle_auto_renew", "InternalServerError", a, "enabled")]
    /\ UNCHANGED <<now, limitVars, userVars, remote, reported, promoVars, payment_method_id,
                   auto_renew_last_attempt>>

\* toggle_auto_renew with auto_renew = false
ToggleDisable(p, a) ==
    /\ Free(p)
    /\ \/ /\ auto_renew' = SetColumn(auto_renew, a, FALSE)
          /\ proc' = [proc EXCEPT ![p] =
                RenewResponse("toggle_auto_renew", "Ok", a, "disabled")]
       \/ /\ UNCHANGED auto_renew
          /\ proc' = [proc EXCEPT ![p] =
                RenewResponse("toggle_auto_renew", "InternalServerError", a, "disabled")]
    /\ UNCHANGED <<now, limitVars, userVars, remote, reported, promoVars, payment_method_id,
                   auto_renew_plan, auto_renew_duration, auto_renew_last_attempt,
                   auto_renew_fail_count, fail_streak>>

CooledDownAlways(last, t) == TRUE

CooledDownAtTwelveHours(last, t) == last = NoTime \/ last <= t - Hours12

\* auto_renew_last_attempt < NOW() - INTERVAL '12 hours', or no attempt yet
CooledDown(last, t) == last = NoTime \/ last < t - Hours12

\* the WHERE clause of get_auto_renew_users, at time t with ?days=h
AutoRenewDue(a, t, h) ==
    /\ a \in registered
    /\ auto_renew[a]
    /\ payment_method_id[a] # NoMethod
    /\ is_active[a] \in {1, 2}
    /\ t <= subscription_end[a] /\ subscription_end[a] <= t + Days(h)
    /\ CooledDown(auto_renew_last_attempt[a], t)

DueQuery(p, h) ==
    /\ Free(p)
    /\ \/ proc' = [proc EXCEPT ![p] =
             [op |-> "get_auto_renew_users", pc |-> "done", result |-> "Ok",
              ids |-> {a \in Accounts : AutoRenewDue(a, now, h)},
              at |-> now, horizon |-> h]]
       \/ proc' = [proc EXCEPT ![p] =
             [op |-> "get_auto_renew_users", pc |-> "done",
              result |-> "InternalServerError"]]
    /\ UNCHANGED <<now, limitVars, userVars, remote, reported, promoVars, renewVars>>

FailCountAfterOverwrite(n) == 1

\* SET auto_renew_fail_count = auto_renew_fail_count + 1
FailCountAfter(n) == n + 1

AutoRenewAfterFailureElseOn(ar, n) == n + 1 < BreakerThreshold

AutoRenewAfterFailureLate(ar, n) == IF n + 1 > BreakerThreshold THEN FALSE ELSE ar

\* SET auto_renew = CASE WHEN auto_renew_fail_count + 1 >= 3 THEN FALSE
\*                       ELSE auto_renew END
AutoRenewAfterFailure(ar, n) == IF n + 1 >= BreakerThreshold THEN FALSE ELSE ar

\* the response of record_auto_renew_attempt, and whether its statement
\* turned auto_renew off
RecordAttemptResponse(result, a, success, opened) ==
    [op |-> "record_auto_renew_attempt", pc |-> "done", result |-> result,
     acct |-> a, success |-> success, opened |-> opened]

RecordSuccess(p, a) ==
    /\ Free(p)
    /\ \/ /\ auto_renew_fail_count' = SetColumn(auto_renew_fail_count, a, 0)
          /\ auto_renew_last_attempt' = SetColumn(auto_renew_last_attempt, a, now)
          /\ fail_streak' = SetColumn(fail_streak, a, 0)
          /\ proc' = [proc EXCEPT ![p] = RecordAttemptResponse("Ok", a, TRUE, FALSE)]
       \/ /\ UNCHANGED <<auto_renew_fail_count, auto_renew_last_attempt, fail_streak>>
          /\ proc' = [proc EXCEPT ![p] =
                RecordAttemptResponse("InternalServerError", a, TRUE, FALSE)]
    /\ UNCHANGED <<now, limitVars, userVars, remote, reported, promoVars, auto_renew,
                   payment_method_id, auto_renew_plan, auto_renew_duration>>

RecordFailure(p, a) ==
    /\ Free(p)
    /\ a \in registered => auto_renew_fail_count[a] < MaxFails
    /\ \/ /\ auto_renew_fail_count' =
                SetColumn(auto_renew_fail_count, a,
                          FailCountAfter(auto_renew_fail_count[a]))
          /\ auto_renew_last_attempt' = SetColumn(auto_renew_last_attempt, a, now)
          /\ auto_renew' =
                SetColumn(auto_renew, a,
                          AutoRenewAfterFailure(auto_renew[a], auto_renew_fail_count[a]))
          /\ fail_streak' = SetColumn(fail_streak, a, fail_streak[a] + 1)
          /\ proc' = [proc EXCEPT ![p] = RecordAttemptResponse("Ok", a, FALSE, auto_renew[a] /\ ~auto_renew'[a])]
       \/ /\ UNCHANGED <<auto_renew_fail_count, auto_renew_last_attempt, auto_renew,
                         fail_streak>>
          /\ proc' = [proc EXCEPT ![p] =
                RecordAttemptResponse("InternalServerError", a, FALSE, FALSE)]
    /\ UNCHANGED <<now, limitVars, userVars, remote, reported, promoVars, payment_method_id,
                   auto_renew_plan, auto_renew_duration>>

(***************************************************************************)
(* The auto-renewal runs start at time 0 with the renewed accounts         *)
(* registered and either never extended, or extended on the base plan, or  *)
(* extended and then moved to grace by a sweep.                            *)
(***************************************************************************)
RenewedAccounts == 1..NumRenewed

InitRenew ==
    /\ now = 0
    /\ registered = RenewedAccounts
    /\ \E d \in DayCounts, st \in {0, 1, 2}, pl \in DefaultPlans :
          /\ subscription_end = [a \in Accounts |->
                IF a \in RenewedAccounts /\ st # 0 THEN SamePlanEnd(0, 0, d) ELSE 0]
          /\ is_active = [a \in Accounts |-> IF a \in RenewedAccounts THEN st ELSE 0]
          /\ plan = [a \in Accounts |->
                IF a \notin RenewedAccounts THEN "unset"
                ELSE IF st = 0 THEN pl ELSE "base"]
          /\ remote = [a \in Accounts |->
                IF a \notin RenewedAccounts THEN NoRemote
                ELSE IF st = 0 THEN RemoteCreated(NoRemote, 0)
                ELSE RemoteExtended(RemoteCreated(NoRemote, 0), "base",
                                    ExpireAt(pl # "base", 0, 0, d))]
          /\ reported = [a \in Accounts |->
                [grace |-> IF a \in RenewedAccounts /\ st = 2 THEN 1 ELSE 0,
                 inactive |-> 0]]
    /\ referral_id = [a \in Accounts |-> NoAccount]
    /\ referrals = [a \in Accounts |-> <<>>]
    /\ promo_codes = [c \in Codes |-> NoPromo]
    /\ promo_usages = [c \in Codes |-> [a \in Accounts |-> 0]]
    /\ RenewDefaults
    /\ LimitDefaults
    /\ proc = [p \in Procs |-> Idle]

NextRenew ==
    \/ TickUpTo(MaxRenewTime)
    \/ \E p \in Procs, a \in RenewedAccounts, pm \in Methods, pl \in TermPlans,
          dur \in TermDurations : SavePaymentMethod(p, a, pm, pl, dur)
    \/ \E p \in Procs, a \in RenewedAccounts : DeletePaymentMethod(p, a)
    \/ \E p \in Procs, a \in RenewedAccounts, pl \in TermPlans \cup {NoTerm},
          dur \in TermDurations \cup {NoTerm} : ToggleEnableRead(p, a, pl, dur)
    \/ \E p \in Procs : ToggleEnableUpdate(p)
    \/ \E p \in Procs, a \in RenewedAccounts : ToggleDisable(p, a)
    \/ \E p \in Procs, h \in Horizons : DueQuery(p, h)
    \/ \E p \in Procs, a \in RenewedAccounts : RecordSuccess(p, a)
    \/ \E p \in Procs, a \in RenewedAccounts : RecordFailure(p, a)

SpecRenew == InitRenew /\ [][NextRenew]_vars

\* the step leaves worker p with the answer Ok to a request of this name
Answered(p, name) ==
    proc'[p].pc = "done" /\ proc'[p].op = name /\ proc'[p].result = "Ok"

RecordDone(p, success) ==
    /\ proc[p].pc = "done" /\ proc[p].op = "record_auto_renew_attempt"
    /\ proc[p].result = "Ok" /\ proc[p].success = success

\* C12: three failed attempts recorded one after the other leave auto_renew =
\* false; a recorded success sets auto_renew_fail_count to 0; and a recorded
\* failure turns auto_renew off only as the third failure, or a later one,
\* with no recorded success in between.
C12_BreakerAfterThreeFailures ==
    /\ [](\A a \in Accounts : fail_streak[a] >= BreakerThreshold => ~auto_renew[a])
    /\ [][\A p \in Procs, a \in RenewedAccounts :
            /\ (Answered(p, "record_auto_renew_attempt") /\ RecordSuccess(p, a)) =>
                  auto_renew_fail_count'[a] = 0
            /\ (auto_renew[a] /\ ~auto_renew'[a] /\ RecordFailure(p, a)) =>
                  fail_streak'[a] >= BreakerThreshold]_vars

C12_Witness ==
    \E p \in Procs, q \in Procs :
        /\ RecordDone(p, FALSE) /\ proc[p].opened
        /\ fail_streak[proc[p].acct] = BreakerThreshold
        /\ ~auto_renew[proc[p].acct]
        /\ RecordDone(q, FALSE) /\ ~proc[q].opened /\ proc[q].acct = proc[p].acct

\* C13: a recorded failure adds exactly 1 to auto_renew_fail_count, sets
\* auto_renew_last_attempt to now, and sets auto_renew to false exactly when
\* the new count is at least 3, leaving it as it was otherwise; this holds
\* for every recording, whatever other workers record in between.
C13_FailureRecording ==
    [][\A p \in Procs, a \in RenewedAccounts :
          (Answered(p, "record_auto_renew_attempt") /\ RecordFailure(p, a)) =>
             /\ auto_renew_fail_count'[a] = auto_renew_fail_count[a] + 1
             /\ auto_renew_last_attempt'[a] = now
             /\ auto_renew'[a] =
                   IF auto_renew_fail_count[a] + 1 >= 3 THEN FALSE ELSE auto_renew[a]]_vars

C13_Witness ==
    \E p \in Procs, q \in Procs, a \in RenewedAccounts :
        /\ p # q
        /\ RecordDone(p, FALSE) /\ proc[p].acct = a
        /\ RecordDone(q, FALSE) /\ proc[q].acct = a
        /\ auto_renew_fail_count[a] = 2 /\ auto_renew[a]
        /\ auto_renew_last_attempt[a] = now

(***************************************************************************)
(* Auto-renewal next to the entitlement's own operations: extensions and   *)
(* both sweeps run among the recordings, the enabling and the saving of    *)
(* the payment method.                                                     *)
(***************************************************************************)
NextBreaker ==
    \/ Tick
    \/ \E p \in Procs, a \in RenewedAccounts, pm \in Methods, pl \in TermPlans,
          dur \in TermDurations : SavePaymentMethod(p, a, pm, pl, dur)
    \/ \E p \in Procs, a \in RenewedAccounts, pl \in TermPlans,
          dur \in TermDurations : ToggleEnableRead(p, a, pl, dur)
    \/ \E p \in Procs : ToggleEnableUpdate(p)
    \/ \E p \in Procs, a \in RenewedAccounts : RecordSuccess(p, a)
    \/ \E p \in Procs, a \in RenewedAccounts : RecordFailure(p, a)
    \/ \E p \in Procs, a \in RenewedAccounts : ExtendRead(p, a, MaxDays, "base")
    \/ \E p \in Procs : ExtendApi(p)
    \/ \E p \in Procs : ExtendDb(p)
    \/ \E p \in Procs : ExpiringSelect(p, MaxHorizon)
    \/ \E p \in Procs : ExpiringUpdate(p)
    \/ \E p \in Procs : ExpiredSelect(p)
    \/ \E p \in Procs : ExpiredUpdate(p)

SpecBreaker == InitRenew /\ [][NextBreaker]_vars

\* C14: auto_renew goes from false to true only in the UPDATE of a
\* toggle_auto_renew request that enables it, passed its checks and is
\* answered Ok; so after the breaker has set it to false it stays false
\* through recordings, extensions, sweeps and the saving of a payment method.
C14_OffUntilEnabled ==
    [][\A a \in Accounts :
          (~auto_renew[a] /\ auto_renew'[a]) =>
             \E p \in Procs :
                /\ ToggleEnableUpdate(p) /\ proc[p].acct = a
                /\ proc'[p].result = "Ok"]_vars

\* the breaker opened for a, a success was recorded and the subscription
\* extended afterwards, and auto_renew is still false
C14_Witness ==
    \E p \in Procs, q \in Procs, a \in RenewedAccounts :
        /\ RecordDone(q, FALSE) /\ proc[q].opened /\ proc[q].acct = a
        /\ ExtendDone(p) /\ proc[p].acct = a
        /\ auto_renew_fail_count[a] = 0
        /\ payment_method_id[a] # NoMethod
        /\ ~auto_renew[a]

DueDone(p) ==
    /\ proc[p].pc = "done" /\ proc[p].op = "get_auto_renew_users"
    /\ proc[p].result = "Ok"

\* what the due query selects on, but the window and the cooldown
DueCandidate(a) ==
    /\ a \in registered
    /\ auto_renew[a]
    /\ payment_method_id[a] # NoMethod
    /\ is_active[a] \in {1, 2}

\* C15 as stated: the due query with horizon h returns exactly the accounts
\* with auto_renew set, a payment method, status ACTIVE or GRACE,
\* subscription_end in [now, now + h) and no attempt or one at least 12 hours
\* old; and it changes no state.
C15_DueQueryHalfOpen ==
    [][\A p \in Procs, h \in Horizons :
          (Answered(p, "get_auto_renew_users") /\ DueQuery(p, h)) =>
             /\ proc'[p].ids =
                   {a \in Accounts :
                       /\ DueCandidate(a)
                       /\ now <= subscription_end[a]
                       /\ subscription_end[a] < now + Days(h)
                       /\ \/ auto_renew_last_attempt[a] = NoTime
                          \/ now - auto_renew_last_attempt[a] >= Hours12}
             /\ UNCHANGED <<userVars, renewVars, remote, promoVars>>]_vars

\* C15, amended: the due query with horizon h returns exactly the accounts
\* with auto_renew set, a payment method, status ACTIVE or GRACE,
\* subscription_end in the closed window [now, now + h] and no attempt or one
\* more than 12 hours old; and it changes no state.
C15_DueQueryClosed ==
    [][\A p \in Procs, h \in Horizons :
          (Answered(p, "get_auto_renew_users") /\ DueQuery(p, h)) =>
             /\ proc'[p].ids =
                   {a \in Accounts :
                       /\ DueCandidate(a)
                       /\ now <= subscription_end[a]
                       /\ subscription_end[a] <= now + Days(h)
                       /\ \/ auto_renew_last_attempt[a] = NoTime
                          \/ now - auto_renew_last_attempt[a] > Hours12}
             /\ UNCHANGED <<userVars, renewVars, remote, promoVars>>]_vars

\* one query returned an account whose subscription_end is the end of its
\* window; another left it out 12 hours after its last attempt
C15_Witness ==
    \E p \in Procs, q \in Procs, a \in RenewedAccounts :
        /\ DueDone(p) /\ a \in proc[p].ids
        /\ subscription_end[a] = proc[p].at + Days(proc[p].horizon)
        /\ DueDone(q) /\ a \notin proc[q].ids
        /\ DueCandidate(a)
        /\ proc[q].at <= subscription_end[a]
        /\ subscription_end[a] <= proc[q].at + Days(proc[q].horizon)
        /\ auto_renew_last_attempt[a] = proc[q].at - Hours12

\* C16 as stated: an account a due query returned is not returned by a later
\* due query issued less than 12 hours after it.
C16_NotReturnedTwice ==
    [][\A p \in Procs, q \in Procs, h \in Horizons :
          (/\ Answered(p, "get_auto_renew_users") /\ DueQuery(p, h)
           /\ DueDone(q) /\ now - proc[q].at < Hours12) =>
              proc'[p].ids \cap proc[q].ids = {}]_vars

\* C16, amended: the cooldown runs from the recorded attempt, not from the
\* query.  Every recording, success or failure, stamps the account with the
\* time it is made, nothing else writes the stamp, and no due query made 12
\* hours or less after the stamp returns the account.
C16_CooldownAfterAttempt ==
    [][/\ \A p \in Procs, a \in RenewedAccounts :
             (/\ Answered(p, "record_auto_renew_attempt")
              /\ RecordSuccess(p, a) \/ RecordFailure(p, a))
                => auto_renew_last_attempt'[a] = now
       /\ \A a \in Accounts :
             auto_renew_last_attempt'[a] # auto_renew_last_attempt[a] =>
                /\ auto_renew_last_attempt'[a] = now
                /\ \E p \in Procs : RecordSuccess(p, a) \/ RecordFailure(p, a)
       /\ \A p \in Procs, h \in Horizons :
             (Answered(p, "get_auto_renew_users") /\ DueQuery(p, h)) =>
                \A a \in proc'[p].ids :
                   \/ auto_renew_last_attempt[a] = NoTime
                   \/ now - auto_renew_last_attempt[a] > Hours12]_vars

\* an attempt was recorded for a, and a due query made within 12 hours of it
\* left a out though a is due but for the cooldown
C16_Witness ==
    \E p \in Procs, q \in Procs, a \in RenewedAccounts :
        /\ proc[p].pc = "done" /\ proc[p].op = "record_auto_renew_attempt"
        /\ proc[p].result = "Ok" /\ proc[p].acct = a
        /\ DueDone(q) /\ a \notin proc[q].ids
        /\ DueCandidate(a)
        /\ proc[q].at <= subscription_end[a]
        /\ subscription_end[a] <= proc[q].at + Days(proc[q].horizon)
        /\ auto_renew_last_attempt[a] # NoTime
        /\ auto_renew_last_attempt[a] <= proc[q].at
        /\ proc[q].at - auto_renew_last_attempt[a] <= Hours12

(***************************************************************************)
(* The sweeps run in isolation: one worker serves every request, so        *)
(* nothing runs between a sweep's SELECT and its UPDATE but the clock.     *)
(***************************************************************************)
AloneAccounts == 1..NumAlone
AloneProcs == {p \in Procs : \A q \in Procs : p <= q}

NextAlone ==
    \/ Tick
    \/ \E p \in AloneProcs, a \in AloneAccounts, d \in DayCounts :
          ExtendRead(p, a, d, "base")
    \/ \E p \in AloneProcs : ExtendApi(p)
    \/ \E p \in AloneProcs : ExtendDb(p)
    \/ \E p \in AloneProcs, h \in Horizons : ExpiringSelect(p, h)
    \/ \E p \in AloneProcs : ExpiringUpdate(p)
    \/ \E p \in AloneProcs : ExpiredSelect(p)
    \/ \E p \in AloneProcs : ExpiredUpdate(p)

SpecAlone == RegisteredAtStart(AloneAccounts) /\ [][NextAlone]_vars

SweepDone(p, name) ==
    proc[p].pc = "done" /\ proc[p].op = name /\ proc[p].result = "Ok"

\* is_active after the rows in ids were set to status and no other row changed
StatusSet(ids, status) ==
    [a \in Accounts |-> IF a \in ids THEN status ELSE is_active[a]]

\* C17 as stated: an isolated get_expiring_users sets to GRACE exactly the
\* rows that are ACTIVE with subscription_end in [now, now + horizon),
\* changes no other status, and returns the ids it changed (none when none
\* match).
C17_GraceHalfOpen ==
    [][\A p \in AloneProcs :
          LET sel == {a \in Accounts : /\ a \in registered
                                       /\ is_active[a] = 1
                                       /\ proc[p].at <= subscription_end[a]
                                       /\ subscription_end[a] <
                                             proc[p].at + Days(proc[p].horizon)}
          IN (ExpiringUpdate(p) /\ proc'[p].result = "Ok") =>
                /\ is_active' = StatusSet(sel, 2)
                /\ proc'[p].ids = sel]_vars

\* C17, amended: an isolated get_expiring_users that commits sets to GRACE
\* exactly the rows that are ACTIVE with subscription_end in the closed
\* window [now, now + horizon], changes no other status, and returns the ids
\* it changed; when no row matches it returns none and changes nothing.
C17_GraceClosed ==
    [][\A p \in AloneProcs :
          /\ LET sel == {a \in Accounts : /\ a \in registered
                                          /\ is_active[a] = 1
                                          /\ proc[p].at <= subscription_end[a]
                                          /\ subscription_end[a] <=
                                                proc[p].at + Days(proc[p].horizon)}
             IN (ExpiringUpdate(p) /\ proc'[p].result = "Ok") =>
                   /\ is_active' = StatusSet(sel, 2)
                   /\ proc'[p].ids = sel
          /\ \A h \in Horizons :
                LET sel == {a \in Accounts : /\ a \in registered
                                             /\ is_active[a] = 1
                                             /\ now <= subscription_end[a]
                                             /\ subscription_end[a] <= now + Days(h)}
                IN ExpiringSelect(p, h) =>
                      /\ is_active' = is_active
                      /\ sel = {} => (proc'[p].pc = "done" /\ proc'[p].ids = {})
                      /\ sel # {} => proc'[p].pc = "update"]_vars

\* a sweep returned an account whose subscription_end is the end of its
\* window and set it to GRACE, and left another account as it was
C17_Witness ==
    \E p \in AloneProcs, a \in AloneAccounts, b \in AloneAccounts :
        /\ SweepDone(p, "get_expiring_users")
        /\ a \in proc[p].ids /\ is_active[a] = 2
        /\ subscription_end[a] = proc[p].at + Days(proc[p].horizon)
        /\ b \notin proc[p].ids /\ is_active[b] = 1

\* C18: get_expiring_users is idempotent: invoked again with the same
\* horizon right after an invocation that committed, at the same time and
\* with no other operation in between, it returns no row and changes no
\* status.
C18_GraceIdempotent ==
    [][\A p \in AloneProcs, h \in Horizons :
          (/\ SweepDone(p, "get_expiring_users")
           /\ proc[p].horizon = h /\ proc[p].at = now
           /\ ExpiringSelect(p, h)) =>
              /\ proc'[p].pc = "done" /\ proc'[p].result = "Ok"
              /\ proc'[p].ids = {}
              /\ is_active' = is_active]_vars

\* at time 0 an account whose subscription_end is the end of the widest
\* window is in GRACE, so a sweep with that horizon has returned it, and the
\* last sweep, with the same horizon at the same time, returned no row
C18_Witness ==
    \E p \in AloneProcs, a \in AloneAccounts :
        /\ SweepDone(p, "get_expiring_users")
        /\ proc[p].ids = {}
        /\ proc[p].horizon = MaxHorizon /\ proc[p].at = now /\ now = 0
        /\ is_active[a] = 2 /\ reported[a].grace = 1
        /\ subscription_end[a] = Days(MaxHorizon)

\* C19: an isolated get_expired_users that commits sets to INACTIVE exactly
\* the rows that are in GRACE with subscription_end before now, leaves every
\* other row's status as it was, and returns the ids it changed; when no row
\* matches it returns none and changes nothing.
C19_InactiveExactly ==
    [][\A p \in AloneProcs :
          /\ LET sel == {a \in Accounts : /\ a \in registered
                                          /\ is_active[a] = 2
                                          /\ subscription_end[a] < proc[p].at}
             IN (ExpiredUpdate(p) /\ proc'[p].result = "Ok") =>
                   /\ is_active' = StatusSet(sel, 0)
                   /\ proc'[p].ids = sel
          /\ LET sel == {a \in Accounts : /\ a \in registered
                                          /\ is_active[a] = 2
                                          /\ subscription_end[a] < now}
             IN ExpiredSelect(p) =>
                   /\ is_active' = is_active
                   /\ sel = {} => (proc'[p].pc = "done" /\ proc'[p].ids = {})
                   /\ sel # {} => proc'[p].pc = "update"]_vars

\* a sweep set an expired GRACE account to INACTIVE and returned it, and
\* left alone a GRACE account whose subscription_end is not before the
\* sweep's time
C19_Witness ==
    \E p \in AloneProcs, a \in AloneAccounts, b \in AloneAccounts :
        /\ SweepDone(p, "get_expired_users")
        /\ a \in proc[p].ids /\ is_active[a] = 0
        /\ subscription_end[a] < proc[p].at
        /\ b \notin proc[p].ids /\ is_active[b] = 2
        /\ subscription_end[b] >= proc[p].at
        /\ reported[b].inactive = 0

\* C20: status changes follow the lifecycle only: a row is created INACTIVE;
\* it becomes GRACE only from ACTIVE and only by get_expiring_users; it
\* becomes INACTIVE only from GRACE and only by get_expired_users; and no
\* operation but these two and extend_subscription changes a status.
C20_LifecycleOnly ==
    [][\A a \in Accounts :
          /\ (a \notin registered /\ a \in registered') => is_active'[a] = 0
          /\ (is_active[a] # 2 /\ is_active'[a] = 2) =>
                is_active[a] = 1 /\ \E p \in Procs : ExpiringUpdate(p)
          /\ (is_active[a] # 0 /\ is_active'[a] = 0) =>
                is_active[a] = 2 /\ \E p \in Procs : ExpiredUpdate(p)
          /\ is_active[a] # is_active'[a] =>
                \E p \in Procs :
                   ExpiringUpdate(p) \/ ExpiredUpdate(p) \/ ExtendDb(p)]_vars

\* worker p is about to run the UPDATE of an extend_subscription for a
ExtendAtDb(p, a) ==
    proc[p].op = "extend_subscription" /\ proc[p].pc = "db" /\ proc[p].acct = a

TrialPlans == {"trial", "free"}

NextTrial ==
    \/ Tick
    \/ \E p \in Procs, a \in ExtendedAccounts : CreateUserCheck(p, a, NoAccount)
    \/ \E p \in Procs : CreateUserApi(p)
    \/ \E p \in Procs : CreateUserDb(p)
    \/ \E p \in Procs, a \in ExtendedAccounts, d \in DayCounts, pl \in TrialPlans :
          ExtendRead(p, a, d, pl)
    \/ \E p \in Procs : ExtendApi(p)
    \/ \E p \in Procs : ExtendDb(p)

SpecTrial == Init /\ [][NextTrial]_vars

Unknown == NumSwept + 1

PaidPlans == {"base", "family"}

NextStatus ==
    \/ Tick
    \/ \E p \in Procs, a \in SweptAccounts \cup {Unknown}, pl \in PaidPlans :
          ExtendRead(p, a, MaxDays, pl)
    \/ \E p \in Procs : ExtendApi(p)
    \/ \E p \in Procs : ExtendDb(p)
    \/ \E p \in Procs : ExpiringSelect(p, MaxHorizon)
    \/ \E p \in Procs : ExpiringUpdate(p)
    \/ \E p \in Procs : ExpiredSelect(p)
    \/ \E p \in Procs : ExpiredUpdate(p)

SpecStatus == InitSweep /\ [][NextStatus]_vars

\* C23: the UPDATE of a successful Extend leaves the row ACTIVE with the
\* requested plan, whatever its status was; an Extend for an account without
\* a row is answered NotFound, calls the provisioning service not at all and
\* changes nothing.
C23_ExtendActivates ==
    [][\A p \in Procs :
          /\ (/\ proc[p].op = "extend_subscription" /\ proc[p].pc = "db"
              /\ Answered(p, "extend_subscription")) =>
                /\ is_active'[proc[p].acct] = 1
                /\ plan'[proc[p].acct] = proc[p].plan
          /\ (proc'[p].pc = "done" /\ proc'[p].op = "extend_subscription") =>
                \A a \in Accounts \ registered, d \in DayCounts, pl \in Plans :
                   ExtendRead(p, a, d, pl) =>
                      /\ proc'[p].result = "NotFound" /\ proc'[p].calls = 0
                      /\ UNCHANGED <<userVars, remote, promoVars, renewVars>>]_vars

\* at time 0, when no row can have run out, a sweep had set the account to
\* GRACE and an Extend on another plan than the stored one has made it ACTIVE
C23_Witness ==
    \E p \in Procs, q \in Procs :
        /\ now = 0
        /\ ExtendDone(p) /\ proc[p].plan # proc[p].read_plan
        /\ SweepDone(q, "get_expiring_users") /\ proc[p].acct \in proc[q].ids
        /\ is_active[proc[p].acct] = 1 /\ plan[proc[p].acct] = proc[p].plan
        /\ reported[proc[p].acct].grace = 0

(***************************************************************************)
(* Registration of the last account, with or without an inviter, while     *)
(* the clock runs and the account is extended.                             *)
(***************************************************************************)
NextRegister ==
    \/ Tick
    \/ \E p \in Procs, ref \in {NoAccount} \cup (Accounts \ {Invited}) :
          CreateUserCheck(p, Invited, ref)
    \/ \E p \in Procs : CreateUserApi(p)
    \/ \E p \in Procs : CreateUserDb(p)
    \/ \E p \in Procs, pl \in PaidPlans : ExtendRead(p, Invited, MaxDays, pl)
    \/ \E p \in Procs : ExtendApi(p)
    \/ \E p \in Procs : ExtendDb(p)

SpecRegister == InitReferral /\ [][NextRegister]_vars

\* C24: a Register for an account that has a row is answered Conflict with
\* no call to the provisioning service and no change of any row; a Register
\* that succeeds leaves the new row INACTIVE with subscription_end = now.
C24_RegisterOnce ==
    [][\A p \in Procs :
          /\ (Free(p) /\ proc'[p].op = "create_user") =>
                \A a \in registered, ref \in Accounts \cup {NoAccount} :
                   CreateUserCheck(p, a, ref) =>
                      /\ proc'[p].pc = "done"
                      /\ proc'[p].result = "Conflict" /\ proc'[p].calls = 0
                      /\ UNCHANGED <<userVars, remote, promoVars, renewVars>>
          /\ (/\ proc[p].op = "create_user" /\ proc[p].pc = "db"
              /\ Answered(p, "create_user")) =>
                /\ proc[p].acct \notin registered
                /\ proc[p].acct \in registered'
                /\ is_active'[proc[p].acct] = 0
                /\ subscription_end'[proc[p].acct] = now]_vars

C24_Witness ==
    \E p \in Procs, q \in Procs :
        /\ proc[p].pc = "done" /\ proc[p].op = "create_user"
        /\ proc[p].result = "Conflict"
        /\ is_active[proc[p].acct] = 1 /\ referral_id[proc[p].acct] # NoAccount
        /\ subscription_end[proc[p].acct] > now
        /\ proc[q].pc = "done" /\ proc[q].op = "create_user"
        /\ proc[q].result = "Ok" /\ now > 0

\* the workers holding a successful answer of create_user for a
Registrars(a) ==
    {p \in Procs : /\ proc[p].pc = "done" /\ proc[p].op = "create_user"
                    /\ proc[p].result = "Ok" /\ proc[p].acct = a}

\* C25: an entitlement is created once per account: whatever the
\* interleaving of the Register calls for it, at most one of them succeeds
\* and the provisioning service never holds more than one user created for
\* the account (a user created there is never removed, so a second one
\* stays).
C25_CreatedOnce ==
    \A a \in Accounts :
        /\ Cardinality(Registrars(a)) <= 1
        /\ remote[a].created <= 1

\* C26: enabling auto_renew is answered BadRequest, with nothing changed,
\* when the row read has no payment_method_id or the request has no plan or
\* no duration; only a request that passed the three checks reaches the
\* UPDATE, and its success leaves auto_renew = TRUE and
\* auto_renew_fail_count = 0.
C26_EnableNeedsAllThree ==
    [][\A p \in Procs :
          /\ (Free(p) /\ proc'[p].op = "toggle_auto_renew") =>
                \A a \in registered, pl \in TermPlans \cup {NoTerm},
                   dur \in TermDurations \cup {NoTerm} :
                   ToggleEnableRead(p, a, pl, dur) =>
                      IF payment_method_id[a] = NoMethod \/ pl = NoTerm \/ dur = NoTerm
                      THEN /\ proc'[p].pc = "done"
                           /\ proc'[p].result = "BadRequest"
                           /\ UNCHANGED <<userVars, remote, promoVars, renewVars>>
                      ELSE proc'[p].pc = "update"
          /\ (/\ proc[p].op = "toggle_auto_renew" /\ proc[p].pc = "update"
              /\ Answered(p, "toggle_auto_renew")) =>
                /\ proc[p].plan # NoTerm /\ proc[p].duration # NoTerm
                /\ auto_renew'[proc[p].acct] = TRUE
                /\ auto_renew_fail_count'[proc[p].acct] = 0
                /\ auto_renew_plan'[proc[p].acct] = proc[p].plan
                /\ auto_renew_duration'[proc[p].acct] = proc[p].duration]_vars

C26_Witness ==
    \E p \in Procs, q \in Procs :
        /\ proc[p].pc = "done" /\ proc[p].op = "toggle_auto_renew"
        /\ proc[p].result = "BadRequest" /\ proc[p].detail = "payment method"
        /\ proc[q].pc = "done" /\ proc[q].op = "toggle_auto_renew"
        /\ proc[q].result = "Ok" /\ proc[q].detail = "enabled"
        /\ proc[q].acct = proc[p].acct
        /\ auto_renew[proc[q].acct] /\ auto_renew_fail_count[proc[q].acct] = 0
        /\ auto_renew_last_attempt[proc[q].acct] # NoTime

\* C27: an AddReferral for a child whose referral_id is set is answered
\* Conflict and leaves the child's referral_id and all referrals unchanged.
C27_AlreadyInvitedConflict ==
    [][\A p \in Procs :
          (Free(p) /\ proc'[p].op = "add_referral") =>
             \A parent \in Accounts, child \in registered :
                (referral_id[child] # NoAccount
                    /\ AddReferralReadChild(p, parent, child)) =>
                   /\ proc'[p].pc = "done"
                   /\ proc'[p].result = "Conflict"
                   /\ UNCHANGED <<referral_id, referrals>>]_vars

\* the positions of a in the array
Occurrences(refs, a) == {i \in 1..Len(refs) : refs[i] = a}

\* C28: no duplicate referral edge: in every reachable state the referrals
\* of each parent hold each child at most once.
C28_NoDuplicateEdge ==
    \A parent \in Accounts, child \in Accounts :
        Cardinality(Occurrences(referrals[parent], child)) <= 1

\* C29: Validate checks, in this order, that the code exists, that it is
\* active, that current_uses < max_uses, that the tariff is empty or
\* applicable, and that the account has no usage row of the code; the reason
\* reported is that of the first check that fails, valid = true is answered
\* exactly when all five pass, and no state changes.
C29_ValidateOrder ==
    [][\A p \in Procs :
          /\ (Free(p) /\ proc'[p].op = "validate_promo") =>
                \A c \in Codes, t \in Tariffs, a \in Accounts :
                   ValidateRead(p, c, t, a) =>
                      /\ UNCHANGED <<userVars, remote, promoVars, renewVars>>
                      /\ LET row == promo_codes[c]
                             failed(reason) ==
                                /\ proc'[p].pc = "done" /\ ~proc'[p].valid
                                /\ proc'[p].reason = reason
                         IN  IF ~row.present THEN failed("not found")
                             ELSE IF ~row.is_active THEN failed("deactivated")
                             ELSE IF ~(row.current_uses < row.max_uses)
                                  THEN failed("exhausted")
                             ELSE IF ~(t = "" \/ t \in row.applicable_tariffs)
                                  THEN failed("not applicable")
                             ELSE proc'[p].pc = "usage"
          /\ (proc[p].op = "validate_promo" /\ proc[p].pc = "usage"
                 /\ ValidateUsage(p)) =>
                /\ UNCHANGED <<userVars, remote, promoVars, renewVars>>
                /\ proc'[p].valid <=> ~UsageExists(proc[p].code, proc[p].acct)
                /\ ~proc'[p].valid => proc'[p].reason = "already used"]_vars

\* C30: a Use of a missing or deactivated code, and a Use that meets the
\* usage row of its pair, adds no usage row and leaves current_uses as it
\* was; once a code is deactivated, its current_uses and its usage rows
\* never change again.
C30_LedgerFrozen ==
    [][/\ \A p \in Procs :
            /\ (Free(p) /\ proc'[p].op = "use_promo") =>
                  \A c \in Codes, a \in Accounts :
                     (~(promo_codes[c].present /\ promo_codes[c].is_active)
                         /\ UseBegin(p, c, a)) =>
                        proc'[p].pc = "done" /\ UNCHANGED promoVars
            /\ (/\ proc[p].op = "use_promo" /\ proc[p].pc = "insert"
                /\ UsageExists(proc[p].code, proc[p].acct)
                /\ UseInsert(p)) =>
                  proc'[p].pc = "done" /\ UNCHANGED promoVars
       /\ \A c \in Codes :
            (promo_codes[c].present /\ ~promo_codes[c].is_active) =>
               /\ promo_codes'[c].current_uses = promo_codes[c].current_uses
               /\ promo_usages'[c] = promo_usages[c]]_vars

(***************************************************************************)
(* temp_disable_device_limit: the row is read, the limit 0 is pushed to    *)
(* the provisioning service, and a detached task is spawned that sleeps    *)
(* and then sends the limit read from the row, once, dropping the outcome. *)
(***************************************************************************)
DeviceLimits == {DeviceLimit("base"), DeviceLimit("family")}

LimitResponse(result, a, calls, original_limit, spawned) ==
    [op |-> "temp_disable_device_limit", pc |-> "done", result |-> result,
     acct |-> a, calls |-> calls, original_limit |-> original_limit,
     spawned |-> spawned]

\* SELECT * FROM users WHERE telegram_id = $1
DisableRead(p, a) ==
    /\ Free(p)
    /\ Len(restore_tasks) < MaxTasks
    /\ proc' = [proc EXCEPT ![p] =
          IF a \notin registered
          THEN LimitResponse("NotFound", a, 0, 0, 0)
          ELSE [op |-> "temp_disable_device_limit", pc |-> "api", acct |-> a,
                original_limit |-> device_limit[a]]]
    /\ UNCHANGED <<now, limitVars, userVars, remote, reported, promoVars, renewVars>>

\* tokio::spawn(async move { sleep(30 min); PATCH ... })
Spawned(tasks, a, original_limit) ==
    Append(tasks, [acct |-> a, original_limit |-> original_limit,
                   pc |-> "sleep", sent |-> 0, applied |-> 0])

\* a temp_disable_device_limit that spawns the task whatever the PATCH gave
DisableApiSpawnsAlways(p) ==
    /\ proc[p].op = "temp_disable_device_limit" /\ proc[p].pc = "api"
    /\ LET a == proc[p].acct
           limit == proc[p].original_limit IN
       \/ /\ remote' = [remote EXCEPT ![a].hwidDeviceLimit = 0]
          /\ restore_tasks' = Spawned(restore_tasks, a, limit)
          /\ proc' = [proc EXCEPT ![p] =
                LimitResponse("Ok", a, 1, limit, Len(restore_tasks) + 1)]
       \/ /\ remote' = remote
          /\ restore_tasks' = Spawned(restore_tasks, a, limit)
          /\ proc' = [proc EXCEPT ![p] =
                LimitResponse("InternalServerError", a, 1, limit, 0)]
    /\ UNCHANGED <<now, device_limit, userVars, reported, promoVars, renewVars>>

\* PATCH /users {hwidDeviceLimit: 0}, then the spawn and the answer
DisableApi(p) ==
    /\ proc[p].op = "temp_disable_device_limit" /\ proc[p].pc = "api"
    /\ LET a == proc[p].acct
           limit == proc[p].original_limit IN
       \/ /\ remote' = [remote EXCEPT ![a].hwidDeviceLimit = 0]
          /\ restore_tasks' = Spawned(restore_tasks, a, limit)
          /\ proc' = [proc EXCEPT ![p] =
                LimitResponse("Ok", a, 1, limit, Len(restore_tasks) + 1)]
       \/ \* transport error or non-success response
          /\ UNCHANGED <<remote, restore_tasks>>
          /\ proc' = [proc EXCEPT ![p] =
                LimitResponse("InternalServerError", a, 1, limit, 0)]
    /\ UNCHANGED <<now, device_limit, userVars, reported, promoVars, renewVars>>

\* tokio::time::sleep(30 * 60 s) of task i returns
RestoreWake(i) ==
    /\ i \in 1..Len(restore_tasks)
    /\ restore_tasks[i].pc = "sleep"
    /\ restore_tasks' = [restore_tasks EXCEPT ![i].pc = "send"]
    /\ UNCHANGED <<now, device_limit, userVars, remote, reported, promoVars,
                   renewVars, proc>>

\* let _ = PATCH /users {hwidDeviceLimit: original_limit} of task i: the
\* service takes the limit, or the request fails and the task ends all the same
RestoreSend(i) ==
    /\ i \in 1..Len(restore_tasks)
    /\ restore_tasks[i].pc = "send"
    /\ \/ /\ remote' = [remote EXCEPT ![restore_tasks[i].acct].hwidDeviceLimit =
                                        restore_tasks[i].original_limit]
          /\ restore_tasks' = [restore_tasks EXCEPT ![i].pc = "end",
                                  ![i].sent = @ + 1, ![i].applied = @ + 1]
       \/ /\ remote' = remote
          /\ restore_tasks' = [restore_tasks EXCEPT ![i].pc = "end",
                                  ![i].sent = @ + 1]
    /\ UNCHANGED <<now, device_limit, userVars, reported, promoVars, renewVars,
                   proc>>

OverrideAccounts == 1..NumAlone

InitOverride ==
    /\ now = 0
    /\ registered = OverrideAccounts
    /\ subscription_end = [a \in Accounts |-> 0]
    /\ is_active = [a \in Accounts |-> 0]
    /\ \E pl \in DefaultPlans :
          plan = [a \in Accounts |-> IF a \in OverrideAccounts THEN pl ELSE "unset"]
    /\ referral_id = [a \in Accounts |-> NoAccount]
    /\ referrals = [a \in Accounts |-> <<>>]
    /\ remote = [a \in Accounts |->
                    IF a \in OverrideAccounts THEN RemoteCreated(NoRemote, 0)
                    ELSE NoRemote]
    /\ reported = [a \in Accounts |-> [grace |-> 0, inactive |-> 0]]
    /\ promo_codes = [c \in Codes |-> NoPromo]
    /\ promo_usages = [c \in Codes |-> [a \in Accounts |-> 0]]
    /\ RenewDefaults
    /\ \E limit \in DeviceLimits :
          device_limit = [a \in Accounts |->
                             IF a \in OverrideAccounts THEN limit ELSE DefaultLimit]
    /\ restore_tasks = <<>>
    /\ proc = [p \in Procs |-> Idle]

NextOverride ==
    \/ \E p \in Procs, a \in Accounts : DisableRead(p, a)
    \/ \E p \in Procs : DisableApi(p)
    \/ \E i \in 1..MaxTasks + NumProcs : RestoreWake(i)
    \/ \E i \in 1..MaxTasks + NumProcs : RestoreSend(i)

SpecOverride == InitOverride /\ [][NextOverride]_vars

Tasks == 1..(MaxTasks + NumProcs)

\* the runtime runs every spawned task: its timer fires and its request is
\* sent
SpecOverrideFair ==
    /\ SpecOverride
    /\ \A i \in Tasks : WF_vars(RestoreWake(i)) /\ WF_vars(RestoreSend(i))

TaskEnded(i) == Len(restore_tasks) >= i /\ restore_tasks[i].pc = "end"

SweepAtUpdate(p, a) ==
    /\ proc[p].pc = "update"
    /\ proc[p].op \in {"get_expiring_users", "get_expired_users"}
    /\ a \in proc[p].sel

\* C32: a sweep never overwrites a concurrent Extend: a row that is ACTIVE
\* with subscription_end beyond the window of a sweep that selected it
\* earlier (an Extend committed after the selection) is still ACTIVE after
\* the UPDATE of that sweep.
C32_SweepKeepsExtended ==
    [][\A p \in Procs, a \in Accounts :
          (/\ SweepAtUpdate(p, a)
           /\ is_active[a] = 1
           /\ subscription_end[a] > proc[p].at + Days(proc[p].horizon)
           /\ (ExpiringUpdate(p) \/ ExpiredUpdate(p))) =>
             is_active'[a] = 1]_vars

\* every worker holds the answer Ok of an Extend of a, and the clock has not
\* moved since the start: the Extends ran at one and the same time
AllExtended(a) ==
    /\ now = 0
    /\ \A p \in Procs : ExtendDone(p) /\ proc[p].acct = a

\* C33: once the successful Extends of an account have completed, the
\* expiry the provisioning service holds (the one sent last) equals the
\* row's subscription_end, also when two Extends were interleaved.
C33_RemoteExpiryIsLocal ==
    \A a \in Accounts :
        AllExtended(a) => remote[a].expireAt = subscription_end[a]

\* C34: in every reachable state a row with auto_renew = TRUE has a
\* payment_method_id.
C34_AutoRenewHasMethod ==
    \A a \in Accounts : auto_renew[a] => payment_method_id[a] # NoMethod

\* no request is between two of its statements
NoneInFlight == \A p \in Procs : Free(p)

\* C35: the two sides of the referral relation agree: in every reachable
\* state with no request in flight, child is in the referrals of parent
\* exactly when the child's referral_id is parent.
C35_ReferralSidesAgree ==
    NoneInFlight =>
       \A parent \in Accounts, child \in Accounts :
          (parent \in registered /\ Contains(referrals[parent], child))
             <=> (child \in registered /\ referral_id[child] = parent)

(***************************************************************************)
(* The sweeps invoked again and again, with one horizon, on rows that were *)
(* extended before the run and are never extended in it.  The clock runs   *)
(* until every subscription_end has passed.                                *)
(***************************************************************************)
EndOfRun == MaxEnd + 1

InitExpiry ==
    /\ now = 0
    /\ registered = SweptAccounts
    /\ \E e \in 0..MaxEnd :
          /\ subscription_end = [a \in Accounts |-> IF a \in SweptAccounts THEN e ELSE 0]
          /\ remote = [a \in Accounts |->
                IF a \in SweptAccounts
                THEN RemoteExtended(RemoteCreated(NoRemote, 0), "base", e)
                ELSE NoRemote]
    /\ is_active = [a \in Accounts |-> IF a \in SweptAccounts THEN 1 ELSE 0]
    /\ plan = [a \in Accounts |-> IF a \in SweptAccounts THEN "base" ELSE "unset"]
    /\ referral_id = [a \in Accounts |-> NoAccount]
    /\ referrals = [a \in Accounts |-> <<>>]
    /\ reported = [a \in Accounts |-> [grace |-> 0, inactive |-> 0]]
    /\ promo_codes = [c \in Codes |-> NoPromo]
    /\ promo_usages = [c \in Codes |-> [a \in Accounts |-> 0]]
    /\ RenewDefaults
    /\ LimitDefaults
    /\ proc = [p \in Procs |-> Idle]

NextExpiry ==
    \/ TickUpTo(EndOfRun)
    \/ \E p \in Procs : ExpiringSelect(p, MaxHorizon)
    \/ \E p \in Procs : ExpiringUpdate(p)
    \/ \E p \in Procs : ExpiredSelect(p)
    \/ \E p \in Procs : ExpiredUpdate(p)

SpecExpiry == InitExpiry /\ [][NextExpiry]_vars

\* time passes; each sweep is invoked again and again; a sweep that selected
\* rows runs its UPDATE, and the UPDATE does not fail for ever
SpecExpiryFair ==
    /\ SpecExpiry
    /\ WF_vars(TickUpTo(EndOfRun))
    /\ \A p \in Procs :
          /\ SF_vars(ExpiringSelect(p, MaxHorizon))
          /\ SF_vars(ExpiredSelect(p))
          /\ SF_vars(ExpiringUpdate(p) /\ proc'[p].result = "Ok")
          /\ SF_vars(ExpiredUpdate(p) /\ proc'[p].result = "Ok")

\* C36: with both sweeps invoked again and again and no Extend, every ACTIVE
\* row eventually is INACTIVE once its subscription_end has passed, also a
\* row whose subscription_end was in the past when get_expiring_users ran
\* next.
C36_ExpiredBecomesInactive ==
    \A a \in SweptAccounts : (is_active[a] = 1) ~> (is_active[a] = 0)

\* C37: in every reachable state a row with auto_renew = TRUE has
\* auto_renew_fail_count <= 2, whatever attempts are recorded and however
\* auto_renew is switched and the payment method saved or removed.
C37_AutoRenewBelowThreshold ==
    \A a \in Accounts : auto_renew[a] => auto_renew_fail_count[a] < BreakerThreshold

\* auto_renew was enabled and two failures were recorded since
C37_Witness ==
    \E p \in Procs, q \in Procs, a \in RenewedAccounts :
        /\ RecordDone(p, FALSE) /\ proc[p].acct = a
        /\ proc[q].pc = "done" /\ proc[q].op = "toggle_auto_renew"
        /\ proc[q].result = "Ok" /\ proc[q].detail = "enabled" /\ proc[q].acct = a
        /\ auto_renew[a] /\ auto_renew_fail_count[a] = BreakerThreshold - 1
====
